---- MODULE Spec2Model ----
(***************************************************************************)
(* The workflow coordinator of the CV Tailor application (src/App.tsx)     *)
(* with the Generation Client of src/services/geminiService.ts.            *)
(*                                                                         *)
(* A text is a sequence of chunks; the chunks " " and "\n" are white       *)
(* space, every other chunk stands for a run of visible characters.        *)
(* Every async handler is cut at its awaits: the part before the await is  *)
(* the user event, the part after it is the completion action.  What is    *)
(* in flight (calls, reads, timers) is counted per kind.                   *)
(*                                                                         *)
(* A control is enabled as its JSX says: its disabled attribute and the    *)
(* conditions under which it is rendered.  The loading overlay is a layer  *)
(* drawn over the page while status is busy; it takes no focus and         *)
(* disables nothing, so keyboard input still reaches the focused control.  *)
(***************************************************************************)
EXTENDS Integers, Sequences, FiniteSets, TLC

VARIABLES
    url, companyProfile, jobDescription, otherDetails,  \* App.tsx:55-58
    activeTab, cvContent, clContent,                    \* App.tsx:60-62
    status, toasts, isEditing, showImportMenu,          \* App.tsx:64-67
    calls,        \* Generation Client calls in flight, per service function
    reads,        \* FileReader / clipboard promises in flight, per kind
    timers,       \* pending setTimeout callbacks other than toast expiry
    toastTimers,  \* pending toast expiry callbacks, per toast id
    download,     \* the last file handed to the browser by handleSaveToDrive
    printed,      \* the view shown when window.print() last ran
    nEvents       \* user events so far

vars == <<url, companyProfile, jobDescription, otherDetails, activeTab,
          cvContent, clContent, status, toasts, isEditing, showImportMenu,
          calls, reads, timers, toastTimers, download, printed, nEvents>>

----------------------------------------------------------------------------
(* Bounds *)

\* user events (edits, clicks, key presses) in one behaviour
MaxEvents == 4

\* user events in one behaviour of the fair specification
MaxLiveEvents == 2

----------------------------------------------------------------------------
(* Texts *)

WhiteSpace == {" ", "\n"}

RECURSIVE TrimStart(_)
TrimStart(s) ==
    IF s = <<>> THEN s
    ELSE IF Head(s) \in WhiteSpace THEN TrimStart(Tail(s)) ELSE s

RECURSIVE TrimEnd(_)
TrimEnd(s) ==
    IF s = <<>> THEN s
    ELSE IF s[Len(s)] \in WhiteSpace THEN TrimEnd(SubSeq(s, 1, Len(s) - 1)) ELSE s

\* String.prototype.trim
Trim(s) == TrimEnd(TrimStart(s))

\* String.prototype.includes, on chunks
Includes(s, chunk) == \E i \in 1..Len(s) : s[i] = chunk

DEFAULT_CV_PLACEHOLDER == <<"\n", "# John Doe", "\n">>
DEFAULT_CL_PLACEHOLDER == <<"\n", "Click Generate Cover Letter", "\n">>

\* what the user types or pastes into a field
TypedTexts == {<<>>, <<" ">>, <<"typed">>}
UrlTexts == {<<>>, <<" ">>, <<"https://job">>}

\* what the system clipboard holds when it is read
ClipboardTexts == {<<>>, <<" ">>, <<"copied">>}

\* the files of the file dialog: NoFile is a change event without a file
NoFile == [type |-> <<"none">>]
Files == {[type |-> <<"application", "/", "pdf">>],
          [type |-> <<"image", "/", "png">>],
          [type |-> <<"application", "/", "zip">>],
          [type |-> <<>>]}

ToastIds == {"id1", "id2"}

----------------------------------------------------------------------------
(* The Generation Client: what one call to ai.models.generateContent can   *)
(* come back with.                                                         *)

Rejected == [kind |-> "reject"]
TextOutcomes == {Rejected} \cup
    {[kind |-> "text", text |-> t] : t \in {<<>>, <<" ">>, <<"generated">>}}

FullDetails ==
    [companyProfile |-> <<"Acme">>, jobDescription |-> <<"Engineer">>,
     salaryBudget |-> <<"NA">>, hrContact |-> <<"Ann">>,
     contactEmail |-> <<"hr@acme">>, previousHolder |-> <<"Bob">>,
     possibleManager |-> <<"Cid">>, teamMates |-> <<"Dee">>]
BlankDetails ==
    [companyProfile |-> <<>>, jobDescription |-> <<" ">>,
     salaryBudget |-> <<>>, hrContact |-> <<>>,
     contactEmail |-> <<>>, previousHolder |-> <<>>,
     possibleManager |-> <<>>, teamMates |-> <<>>]
\* the call rejects, or its text is empty, is no JSON, is the JSON null, or
\* is a JSON object with the eight fields of the response schema
JsonOutcomes ==
    {Rejected, [kind |-> "empty"], [kind |-> "unparsable"], [kind |-> "null"]} \cup
    {[kind |-> "json", details |-> d] : d \in {FullDetails, BlankDetails}}

\* variant: an empty response text is returned like any other text
TextService_EmptyReturned(o, failure) ==
    IF o.kind = "text"
    THEN [ok |-> TRUE, text |-> o.text]
    ELSE [ok |-> FALSE, message |-> failure]

\* The four text services share one shape: the response text, or an Error
\* with the service's own message when the call rejects or the text is falsy.
TextService(o, failure) ==
    IF o.kind = "text" /\ o.text # <<>>
    THEN [ok |-> TRUE, text |-> o.text]
    ELSE [ok |-> FALSE, message |-> failure]

\* variant: a failed call yields default details instead of throwing
extractJobDetails_DefaultOnError(o) ==
    IF o.kind = "json" THEN [ok |-> TRUE, null |-> FALSE, details |-> o.details]
    ELSE IF o.kind = "null" THEN [ok |-> TRUE, null |-> TRUE]
    ELSE [ok |-> TRUE, null |-> FALSE,
          details |-> [f \in DOMAIN FullDetails |-> <<"NA">>]]

\* JSON.parse returns whatever the text denotes, null included
extractJobDetails(o) ==
    IF o.kind = "json" THEN [ok |-> TRUE, null |-> FALSE, details |-> o.details]
    ELSE IF o.kind = "null" THEN [ok |-> TRUE, null |-> TRUE]
    ELSE [ok |-> FALSE, null |-> FALSE, message |-> "Failed to extract job details. Please ensure the URL is valid or try pasting the details manually."]

\* variant: the response text is trimmed before it is tested and returned
parseResumeFromMedia_Trimmed(o) ==
    TextService(IF o.kind = "text" THEN [kind |-> "text", text |-> Trim(o.text)] ELSE o,
                "Failed to read the resume file. Please try converting to a simpler PDF or Image, or copy-paste the text.")

parseResumeFromMedia(o) ==
    TextService(o, "Failed to read the resume file. Please try converting to a simpler PDF or Image, or copy-paste the text.")

parseResumeFromText(o) ==
    TextService(o, "Failed to parse text content. Please try again.")

\* variant: the response text is trimmed before it is tested and returned
optimizeCV_Trimmed(o) ==
    TextService(IF o.kind = "text" THEN [kind |-> "text", text |-> Trim(o.text)] ELSE o,
                "Failed to optimize CV. Please try again.")

optimizeCV(o) ==
    TextService(o, "Failed to optimize CV. Please try again.")

\* variant: the response text is trimmed before it is tested and returned
generateCoverLetter_Trimmed(o) ==
    TextService(IF o.kind = "text" THEN [kind |-> "text", text |-> Trim(o.text)] ELSE o,
                "Failed to generate Cover Letter.")

generateCoverLetter(o) ==
    TextService(o, "Failed to generate Cover Letter.")

CallKinds == {"extractJobDetails", "optimizeCV", "generateCoverLetter",
              "parseResumeFromMedia", "parseResumeFromText"}
ReadKinds == {"readAsDataURL", "readText", "write", "writeText"}
TimerKinds == {"statusReset", "print"}

----------------------------------------------------------------------------
(* State after the first render *)

NoDownload == [filename |-> "", content |-> <<>>]

\* everything but the four input fields and the import menu
Mounted ==
    /\ activeTab = "cv"
    /\ cvContent = Trim(DEFAULT_CV_PLACEHOLDER)
    /\ clContent = Trim(DEFAULT_CL_PLACEHOLDER)
    /\ status = "IDLE"
    /\ toasts = <<>>
    /\ isEditing = TRUE
    /\ calls = [k \in CallKinds |-> 0]
    /\ reads = [k \in ReadKinds |-> 0]
    /\ timers = [k \in TimerKinds |-> 0]
    /\ toastTimers = [i \in ToastIds |-> 0]
    /\ download = NoDownload
    /\ printed = "never"

Init ==
    /\ Mounted
    /\ url = <<>>
    /\ companyProfile = <<>>
    /\ jobDescription = <<>>
    /\ otherDetails = <<>>
    /\ showImportMenu = FALSE
    /\ nEvents = 0

\* The fair specification starts where the user has typed a URL and the job
\* details, with the import menu open or closed and nothing in flight, and
\* leaves the user MaxLiveEvents further events.
InitLive ==
    /\ Mounted
    /\ url = <<"https://job">>
    /\ companyProfile = <<"typed">>
    /\ jobDescription = <<"typed">>
    /\ otherDetails = <<>>
    /\ showImportMenu \in BOOLEAN
    /\ nEvents = MaxEvents - MaxLiveEvents

----------------------------------------------------------------------------
(* Notification manager *)

\* variant: the new notification is put in front of the others
AddToast_Prepend(id, type, message) ==
    /\ toasts' = <<[id |-> id, type |-> type, message |-> message]>> \o toasts
    /\ toastTimers' = [toastTimers EXCEPT ![id] = @ + 1]

\* addToast: the id is Math.random().toString(36).substr(2, 9)
AddToast(id, type, message) ==
    /\ toasts' = Append(toasts, [id |-> id, type |-> type, message |-> message])
    /\ toastTimers' = [toastTimers EXCEPT ![id] = @ + 1]

WithoutId(ts, id) == SelectSeq(ts, LAMBDA t : t.id # id)

\* removeToast, from the X button of a toast
DismissToast ==
    /\ nEvents < MaxEvents
    /\ nEvents' = nEvents + 1
    /\ \E i \in 1..Len(toasts) : toasts' = WithoutId(toasts, toasts[i].id)
    /\ UNCHANGED <<url, companyProfile, jobDescription, otherDetails, activeTab,
                   cvContent, clContent, status, isEditing, showImportMenu,
                   calls, reads, timers, toastTimers, download, printed>>

\* the setTimeout callback of addToast
ToastTimer ==
    /\ \E id \in ToastIds :
          /\ toastTimers[id] > 0
          /\ toastTimers' = [toastTimers EXCEPT ![id] = @ - 1]
          /\ toasts' = WithoutId(toasts, id)
    /\ UNCHANGED <<url, companyProfile, jobDescription, otherDetails, activeTab,
                   cvContent, clContent, status, isEditing, showImportMenu,
                   calls, reads, timers, download, printed, nEvents>>

----------------------------------------------------------------------------
(* Frames *)

jobFields == <<companyProfile, jobDescription, otherDetails>>
buffers == <<cvContent, clContent>>
view == <<activeTab, isEditing>>
inFlight == <<calls, reads, timers>>
notifications == <<toasts, toastTimers>>
outputs == <<download, printed>>

\* one more user event, within the budget
UserEvent ==
    /\ nEvents < MaxEvents
    /\ nEvents' = nEvents + 1

----------------------------------------------------------------------------
(* Plain edits and view controls *)

\* onChange of the URL input
SetUrl ==
    /\ UserEvent
    /\ \E v \in UrlTexts : v # url /\ url' = v
    /\ UNCHANGED <<jobFields, buffers, view, status, showImportMenu, inFlight,
                   notifications, outputs>>

\* onChange of the three job-detail text areas
SetCompanyProfile ==
    /\ UserEvent
    /\ \E v \in TypedTexts : v # companyProfile /\ companyProfile' = v
    /\ UNCHANGED <<url, jobDescription, otherDetails, buffers, view, status,
                   showImportMenu, inFlight, notifications, outputs>>

SetJobDescription ==
    /\ UserEvent
    /\ \E v \in TypedTexts : v # jobDescription /\ jobDescription' = v
    /\ UNCHANGED <<url, companyProfile, otherDetails, buffers, view, status,
                   showImportMenu, inFlight, notifications, outputs>>

SetOtherDetails ==
    /\ UserEvent
    /\ \E v \in TypedTexts : v # otherDetails /\ otherDetails' = v
    /\ UNCHANGED <<url, companyProfile, jobDescription, buffers, view, status,
                   showImportMenu, inFlight, notifications, outputs>>

\* onChange of the editor text area, which is hidden unless isEditing
EditorChange ==
    /\ UserEvent
    /\ isEditing
    /\ \E v \in TypedTexts :
          IF activeTab = "cv"
          THEN v # cvContent /\ cvContent' = v /\ UNCHANGED clContent
          ELSE v # clContent /\ clContent' = v /\ UNCHANGED cvContent
    /\ UNCHANGED <<url, jobFields, view, status, showImportMenu, inFlight,
                   notifications, outputs>>

\* the Resume and Cover Letter tab buttons
SelectTab ==
    /\ UserEvent
    /\ \E t \in {"cv", "cl"} : t # activeTab /\ activeTab' = t
    /\ UNCHANGED <<url, jobFields, buffers, isEditing, status, showImportMenu,
                   inFlight, notifications, outputs>>

\* the View/Edit toggle
ToggleEditing ==
    /\ UserEvent
    /\ isEditing' = ~isEditing
    /\ UNCHANGED <<url, jobFields, buffers, activeTab, status, showImportMenu,
                   inFlight, notifications, outputs>>

\* the Import button, rendered on the resume tab only
ToggleImportMenu ==
    /\ UserEvent
    /\ activeTab = "cv"
    /\ showImportMenu' = ~showImportMenu
    /\ UNCHANGED <<url, jobFields, buffers, view, status, inFlight,
                   notifications, outputs>>

\* mousedown outside the import menu; importMenuRef is set only while the
\* menu's container is rendered
handleClickOutside ==
    /\ UserEvent
    /\ activeTab = "cv"
    /\ showImportMenu
    /\ showImportMenu' = FALSE
    /\ UNCHANGED <<url, jobFields, buffers, view, status, inFlight,
                   notifications, outputs>>

----------------------------------------------------------------------------
(* ExtractJobDetails *)

\* variant: the URL is tested without trim()
UrlMissing_NoTrim == url = <<>>

UrlMissing == Trim(url) = <<>>

\* variant: the Email block is written before the HR Contact block
formattedDetails_EmailFirst(details) ==
    <<"Salary Budget: ">> \o details.salaryBudget \o <<"\n", "\n">> \o
    <<"Email: ">> \o details.contactEmail \o <<"\n", "\n">> \o
    <<"HR Contact: ">> \o details.hrContact \o <<"\n", "\n">> \o
    <<"Previous/Current Holder:", "\n">> \o details.previousHolder \o <<"\n", "\n">> \o
    <<"Possible Manager:", "\n">> \o details.possibleManager \o <<"\n", "\n">> \o
    <<"Possible Team Mates:", "\n">> \o details.teamMates

formattedDetails(details) ==
    <<"Salary Budget: ">> \o details.salaryBudget \o <<"\n", "\n">> \o
    <<"HR Contact: ">> \o details.hrContact \o <<"\n", "\n">> \o
    <<"Email: ">> \o details.contactEmail \o <<"\n", "\n">> \o
    <<"Previous/Current Holder:", "\n">> \o details.previousHolder \o <<"\n", "\n">> \o
    <<"Possible Manager:", "\n">> \o details.possibleManager \o <<"\n", "\n">> \o
    <<"Possible Team Mates:", "\n">> \o details.teamMates

\* handleExtract up to its await
handleExtract ==
    /\ IF UrlMissing
       THEN /\ \E id \in ToastIds : AddToast(id, "error", "Please enter a valid URL")
            /\ UNCHANGED <<status, calls>>
       ELSE /\ status' = "EXTRACTING"
            /\ calls' = [calls EXCEPT !["extractJobDetails"] = @ + 1]
            /\ UNCHANGED notifications
    /\ UNCHANGED <<url, jobFields, buffers, view, showImportMenu, reads, timers,
                   outputs>>

\* the Enter key in the URL input: no condition on status
PressEnterInUrl == UserEvent /\ handleExtract

\* the Extract button: disabled unless status is IDLE
ClickExtract == UserEvent /\ status = "IDLE" /\ handleExtract

\* handleExtract from its await on: try, catch, finally.  Reading a field
\* of null throws a TypeError before the first setter runs.
ExtractSettled(o) ==
    /\ calls["extractJobDetails"] > 0
    /\ calls' = [calls EXCEPT !["extractJobDetails"] = @ - 1]
    /\ LET r == extractJobDetails(o) IN
       IF r.ok /\ r.null
       THEN /\ \E id \in ToastIds :
                  AddToast(id, "error", "Cannot read properties of null (reading 'companyProfile')")
            /\ UNCHANGED jobFields
       ELSE IF r.ok
       THEN /\ companyProfile' = r.details.companyProfile
            /\ jobDescription' = r.details.jobDescription
            /\ otherDetails' = formattedDetails(r.details)
            /\ \E id \in ToastIds :
                  AddToast(id, "success", "Job details extracted successfully!")
       ELSE /\ \E id \in ToastIds : AddToast(id, "error", r.message)
            /\ UNCHANGED jobFields
    /\ status' = "IDLE"
    /\ UNCHANGED <<url, buffers, view, showImportMenu, reads, timers, outputs,
                   nEvents>>

ExtractDone == \E o \in JsonOutcomes : ExtractSettled(o)

----------------------------------------------------------------------------
(* OptimizeResume and GenerateCoverLetter *)

JobDetailsMissing == Trim(companyProfile) = <<>> \/ Trim(jobDescription) = <<>>

\* variant: the resume is tested without trim()
CvMissing_NoTrim == cvContent = <<>>

CvMissing == Trim(cvContent) = <<>>

\* the two early returns shared by handleOptimize and handleGenerateCoverLetter
PreconditionToast ==
    IF JobDetailsMissing THEN "Please extract job details first"
    ELSE IF CvMissing THEN "Please ensure your current CV is in the editor"
    ELSE "none"

\* handleOptimize up to its await
handleOptimize ==
    /\ IF PreconditionToast # "none"
       THEN /\ \E id \in ToastIds : AddToast(id, "error", PreconditionToast)
            /\ UNCHANGED <<status, calls>>
       ELSE /\ status' = "OPTIMIZING"
            /\ calls' = [calls EXCEPT !["optimizeCV"] = @ + 1]
            /\ UNCHANGED notifications
    /\ UNCHANGED <<url, jobFields, buffers, view, showImportMenu, reads, timers,
                   outputs>>

\* the toolbar's Optimize button: resume tab, disabled unless status is IDLE
ClickOptimize == UserEvent /\ activeTab = "cv" /\ status = "IDLE" /\ handleOptimize

\* the Tailor CV button of the left column: no disabled attribute
ClickTailorCV == UserEvent /\ handleOptimize

\* variant: a failed call is issued again by the handler itself
OptimizeSettled_Retry(o) ==
    /\ calls["optimizeCV"] > 0
    /\ LET r == optimizeCV(o) IN
       IF r.ok
       THEN /\ calls' = [calls EXCEPT !["optimizeCV"] = @ - 1]
            /\ cvContent' = r.text
            /\ activeTab' = "cv"
            /\ isEditing' = FALSE
            /\ status' = "IDLE"
            /\ \E id \in ToastIds : AddToast(id, "success", "CV optimized successfully!")
       ELSE /\ \E id \in ToastIds : AddToast(id, "error", r.message)
            /\ UNCHANGED <<calls, status, cvContent, view>>
    /\ UNCHANGED <<url, jobFields, clContent, showImportMenu, reads, timers,
                   outputs, nEvents>>

\* handleOptimize from its await on
OptimizeSettled(o) ==
    /\ calls["optimizeCV"] > 0
    /\ calls' = [calls EXCEPT !["optimizeCV"] = @ - 1]
    /\ LET r == optimizeCV(o) IN
       IF r.ok
       THEN /\ cvContent' = r.text
            /\ activeTab' = "cv"
            /\ isEditing' = FALSE
            /\ \E id \in ToastIds : AddToast(id, "success", "CV optimized successfully!")
       ELSE /\ \E id \in ToastIds : AddToast(id, "error", r.message)
            /\ UNCHANGED <<cvContent, view>>
    /\ status' = "IDLE"
    /\ UNCHANGED <<url, jobFields, clContent, showImportMenu, reads, timers,
                   outputs, nEvents>>

OptimizeDone == \E o \in TextOutcomes : OptimizeSettled(o)

\* handleGenerateCoverLetter up to its await
handleGenerateCoverLetter ==
    /\ IF PreconditionToast # "none"
       THEN /\ \E id \in ToastIds : AddToast(id, "error", PreconditionToast)
            /\ UNCHANGED <<status, calls>>
       ELSE /\ status' = "GENERATING_COVER_LETTER"
            /\ calls' = [calls EXCEPT !["generateCoverLetter"] = @ + 1]
            /\ UNCHANGED notifications
    /\ UNCHANGED <<url, jobFields, buffers, view, showImportMenu, reads, timers,
                   outputs>>

\* the toolbar's Generate button: cover-letter tab, disabled unless IDLE
ClickGenerate ==
    UserEvent /\ activeTab = "cl" /\ status = "IDLE" /\ handleGenerateCoverLetter

\* the Write Cover Letter button of the left column: no disabled attribute
ClickWriteCoverLetter == UserEvent /\ handleGenerateCoverLetter

\* variant: a failed call clears the cover letter and shows its tab
CoverLetterSettled_ClearsOnFailure(o) ==
    /\ calls["generateCoverLetter"] > 0
    /\ calls' = [calls EXCEPT !["generateCoverLetter"] = @ - 1]
    /\ LET r == generateCoverLetter(o) IN
       IF r.ok
       THEN /\ clContent' = r.text
            /\ activeTab' = "cl"
            /\ isEditing' = FALSE
            /\ \E id \in ToastIds : AddToast(id, "success", "Cover Letter generated!")
       ELSE /\ \E id \in ToastIds : AddToast(id, "error", r.message)
            /\ clContent' = <<>>
            /\ activeTab' = "cl"
            /\ UNCHANGED isEditing
    /\ status' = "IDLE"
    /\ UNCHANGED <<url, jobFields, cvContent, showImportMenu, reads, timers,
                   outputs, nEvents>>

\* handleGenerateCoverLetter from its await on
CoverLetterSettled(o) ==
    /\ calls["generateCoverLetter"] > 0
    /\ calls' = [calls EXCEPT !["generateCoverLetter"] = @ - 1]
    /\ LET r == generateCoverLetter(o) IN
       IF r.ok
       THEN /\ clContent' = r.text
            /\ activeTab' = "cl"
            /\ isEditing' = FALSE
            /\ \E id \in ToastIds : AddToast(id, "success", "Cover Letter generated!")
       ELSE /\ \E id \in ToastIds : AddToast(id, "error", r.message)
            /\ UNCHANGED <<clContent, view>>
    /\ status' = "IDLE"
    /\ UNCHANGED <<url, jobFields, cvContent, showImportMenu, reads, timers,
                   outputs, nEvents>>

CoverLetterDone == \E o \in TextOutcomes : CoverLetterSettled(o)

----------------------------------------------------------------------------
(* ImportResume, file variant *)

\* variant: a file without a MIME type passes the test
UnsupportedFile_TypedOnly(file) ==
    file.type # <<>> /\ ~Includes(file.type, "pdf") /\ ~Includes(file.type, "image")

\* the MIME test of handleFileUpload
UnsupportedFile(file) ==
    ~Includes(file.type, "pdf") /\ ~Includes(file.type, "image")

\* handleFileUpload, all of it: it awaits nothing.  Its try block only
\* creates the reader, starts the read and assigns the two callbacks, and
\* none of that throws for a fresh FileReader and a File, so the catch
\* never runs; the finally schedules the status reset.
handleFileUpload(file) ==
    /\ showImportMenu' = FALSE
    /\ IF file = NoFile
       THEN UNCHANGED <<status, reads, timers, notifications>>
       ELSE IF UnsupportedFile(file)
       THEN /\ \E id \in ToastIds :
                  AddToast(id, "error", "Please upload a PDF or Image file.")
            /\ UNCHANGED <<status, reads, timers>>
       ELSE /\ status' = "PARSING"
            /\ reads' = [reads EXCEPT !["readAsDataURL"] = @ + 1]
            /\ timers' = [timers EXCEPT !["statusReset"] = @ + 1]
            /\ UNCHANGED notifications
    /\ UNCHANGED <<url, jobFields, buffers, view, calls, outputs>>

\* Upload PDF/Image in the import menu, then the file dialog's change event
FileChosen(file) ==
    /\ UserEvent
    /\ activeTab = "cv"
    /\ showImportMenu
    /\ handleFileUpload(file)

ChooseFile == \E file \in Files \cup {NoFile} : FileChosen(file)

\* reader.onload up to its await: the call is issued
ReaderOnLoad ==
    /\ reads["readAsDataURL"] > 0
    /\ reads' = [reads EXCEPT !["readAsDataURL"] = @ - 1]
    /\ calls' = [calls EXCEPT !["parseResumeFromMedia"] = @ + 1]
    /\ UNCHANGED <<url, jobFields, buffers, view, status, showImportMenu, timers,
                   notifications, outputs, nEvents>>

\* variant: the failure is recorded in status
ReaderOnError_SetsError ==
    /\ reads["readAsDataURL"] > 0
    /\ reads' = [reads EXCEPT !["readAsDataURL"] = @ - 1]
    /\ \E id \in ToastIds : AddToast(id, "error", "Failed to read file.")
    /\ status' = "ERROR"
    /\ UNCHANGED <<url, jobFields, buffers, view, showImportMenu, calls, timers,
                   outputs, nEvents>>

\* reader.onerror
ReaderOnError ==
    /\ reads["readAsDataURL"] > 0
    /\ reads' = [reads EXCEPT !["readAsDataURL"] = @ - 1]
    /\ \E id \in ToastIds : AddToast(id, "error", "Failed to read file.")
    /\ status' = "IDLE"
    /\ UNCHANGED <<url, jobFields, buffers, view, showImportMenu, calls, timers,
                   outputs, nEvents>>

\* reader.onload from its await on.  The callback has no try of its own and
\* runs after handleFileUpload has returned: a rejection of the call ends
\* the callback and nothing else runs.
MediaSettled(o) ==
    /\ calls["parseResumeFromMedia"] > 0
    /\ calls' = [calls EXCEPT !["parseResumeFromMedia"] = @ - 1]
    /\ LET r == parseResumeFromMedia(o) IN
       IF r.ok
       THEN /\ cvContent' = r.text
            /\ activeTab' = "cv"
            /\ isEditing' = TRUE
            /\ \E id \in ToastIds : AddToast(id, "success", "CV imported successfully!")
       ELSE UNCHANGED <<cvContent, view, notifications>>
    /\ UNCHANGED <<url, jobFields, clContent, status, showImportMenu, reads,
                   timers, outputs, nEvents>>

MediaDone == \E o \in TextOutcomes : MediaSettled(o)

\* variant: the finally of handleFileUpload schedules a callback that leaves
\* status alone
StatusResetTimer_NoReset ==
    /\ timers["statusReset"] > 0
    /\ timers' = [timers EXCEPT !["statusReset"] = @ - 1]
    /\ UNCHANGED <<url, jobFields, buffers, view, status, showImportMenu, calls,
                   reads, notifications, outputs, nEvents>>

\* the callback of setTimeout(() => setStatus(AppStatus.IDLE), 1000)
StatusResetTimer ==
    /\ timers["statusReset"] > 0
    /\ timers' = [timers EXCEPT !["statusReset"] = @ - 1]
    /\ status' = "IDLE"
    /\ UNCHANGED <<url, jobFields, buffers, view, showImportMenu, calls, reads,
                   notifications, outputs, nEvents>>

----------------------------------------------------------------------------
(* ImportResume, clipboard-text variant *)

\* variant: the clipboard text is tested without trim()
ClipboardEmpty_NoTrim(text) == text = <<>>

\* the emptiness test of handlePasteFromGoogleDoc
ClipboardEmpty(text) == text = <<>> \/ Trim(text) = <<>>

\* handlePasteFromGoogleDoc up to its first await
handlePasteFromGoogleDoc ==
    /\ showImportMenu' = FALSE
    /\ reads' = [reads EXCEPT !["readText"] = @ + 1]
    /\ UNCHANGED <<url, jobFields, buffers, view, status, calls, timers,
                   notifications, outputs>>

\* Paste from Google Doc in the import menu
ClickPaste ==
    /\ UserEvent
    /\ activeTab = "cv"
    /\ showImportMenu
    /\ handlePasteFromGoogleDoc

\* navigator.clipboard.readText() rejected: catch, then finally
ClipboardReadFailed ==
    /\ reads["readText"] > 0
    /\ reads' = [reads EXCEPT !["readText"] = @ - 1]
    /\ \E id \in ToastIds :
          AddToast(id, "error", "Failed to read clipboard. Please allow permissions.")
    /\ status' = "IDLE"
    /\ UNCHANGED <<url, jobFields, buffers, view, showImportMenu, calls, timers,
                   outputs, nEvents>>

\* handlePasteFromGoogleDoc from its first await to its second, or to its
\* end when the text is empty (the return inside try still runs finally)
ClipboardReadSettled(text) ==
    /\ reads["readText"] > 0
    /\ reads' = [reads EXCEPT !["readText"] = @ - 1]
    /\ IF ClipboardEmpty(text)
       THEN /\ \E id \in ToastIds :
                  AddToast(id, "error", "Clipboard is empty. Copy your CV text first.")
            /\ status' = "IDLE"
            /\ UNCHANGED calls
       ELSE /\ status' = "PARSING"
            /\ calls' = [calls EXCEPT !["parseResumeFromText"] = @ + 1]
            /\ UNCHANGED notifications
    /\ UNCHANGED <<url, jobFields, buffers, view, showImportMenu, timers,
                   outputs, nEvents>>

ClipboardReadDone == \E text \in ClipboardTexts : ClipboardReadSettled(text)

\* handlePasteFromGoogleDoc from its second await on
TextSettled(o) ==
    /\ calls["parseResumeFromText"] > 0
    /\ calls' = [calls EXCEPT !["parseResumeFromText"] = @ - 1]
    /\ LET r == parseResumeFromText(o) IN
       IF r.ok
       THEN /\ cvContent' = r.text
            /\ activeTab' = "cv"
            /\ isEditing' = TRUE
            /\ \E id \in ToastIds :
                  AddToast(id, "success", "Pasted content formatted successfully!")
       ELSE /\ \E id \in ToastIds :
                  AddToast(id, "error", "Failed to read clipboard. Please allow permissions.")
            /\ UNCHANGED <<cvContent, view>>
    /\ status' = "IDLE"
    /\ UNCHANGED <<url, jobFields, clContent, showImportMenu, reads, timers,
                   outputs, nEvents>>

TextDone == \E o \in TextOutcomes : TextSettled(o)

----------------------------------------------------------------------------
(* Export *)

\* handleDownloadPdf
handleDownloadPdf ==
    /\ UserEvent
    /\ isEditing' = FALSE
    /\ timers' = [timers EXCEPT !["print"] = @ + 1]
    /\ UNCHANGED <<url, jobFields, buffers, activeTab, status, showImportMenu,
                   calls, reads, notifications, outputs>>

\* the callback of setTimeout(() => window.print(), 100)
PrintTimer ==
    /\ timers["print"] > 0
    /\ timers' = [timers EXCEPT !["print"] = @ - 1]
    /\ printed' = IF isEditing THEN "editor" ELSE "preview"
    /\ UNCHANGED <<url, jobFields, buffers, view, status, showImportMenu, calls,
                   reads, notifications, download, nEvents>>

\* variant: the two file names are exchanged
saveFilename_Swapped == IF activeTab = "cv" THEN "cover_letter.md" ELSE "optimized_cv.md"

\* the filename of handleSaveToDrive
saveFilename == IF activeTab = "cv" THEN "optimized_cv.md" ELSE "cover_letter.md"

\* handleSaveToDrive
handleSaveToDrive ==
    /\ UserEvent
    /\ download' = [filename |-> saveFilename,
                    content |-> IF activeTab = "cv" THEN cvContent ELSE clContent]
    /\ \E id \in ToastIds : AddToast(id, "success", "File downloaded as Markdown")
    /\ UNCHANGED <<url, jobFields, buffers, view, status, showImportMenu,
                   inFlight, printed>>

\* previewRef.current: the preview container is rendered in both view modes
\* (hidden by a class while editing), so the ref is set after the first render
previewRefCurrent == TRUE

\* handleExportToGoogleDoc up to its await.  Constructing the ClipboardItem
\* throws where the runtime has none; that lands in the catch at once.
ExportInvoked(hasClipboardItem) ==
    /\ UserEvent
    /\ IF previewRefCurrent /\ ~hasClipboardItem
       THEN /\ \E id \in ToastIds :
                  AddToast(id, "error", "Failed to copy to clipboard. Please select and copy manually.")
            /\ UNCHANGED reads
       ELSE /\ reads' = [reads EXCEPT ![IF previewRefCurrent THEN "write" ELSE "writeText"] = @ + 1]
            /\ UNCHANGED notifications
    /\ UNCHANGED <<url, jobFields, buffers, view, status, showImportMenu, calls,
                   timers, outputs>>

\* the Google Docs button, in a runtime with or without ClipboardItem
handleExportToGoogleDoc == \E hasClipboardItem \in BOOLEAN : ExportInvoked(hasClipboardItem)

\* handleExportToGoogleDoc from its await on; the delayed window.open
\* touches no state
ClipboardWriteSettled(kind, ok) ==
    /\ reads[kind] > 0
    /\ reads' = [reads EXCEPT ![kind] = @ - 1]
    /\ \E id \in ToastIds :
          IF ~ok
          THEN AddToast(id, "error", "Failed to copy to clipboard. Please select and copy manually.")
          ELSE IF kind = "write"
          THEN AddToast(id, "success", "Formatted content copied! Opening Google Docs...")
          ELSE AddToast(id, "info", "Markdown text copied. Opening Google Docs...")
    /\ UNCHANGED <<url, jobFields, buffers, view, status, showImportMenu, calls,
                   timers, outputs, nEvents>>

ClipboardWriteDone ==
    \E kind \in {"write", "writeText"}, ok \in BOOLEAN : ClipboardWriteSettled(kind, ok)

Next ==
    \/ ChooseFile \/ ReaderOnLoad \/ ReaderOnError \/ MediaDone \/ StatusResetTimer
    \/ ClickPaste \/ ClipboardReadFailed \/ ClipboardReadDone \/ TextDone
    \/ handleDownloadPdf \/ PrintTimer \/ handleSaveToDrive
    \/ handleExportToGoogleDoc \/ ClipboardWriteDone
    \/ SetUrl \/ SetCompanyProfile \/ SetJobDescription \/ SetOtherDetails
    \/ EditorChange \/ SelectTab \/ ToggleEditing \/ ToggleImportMenu
    \/ handleClickOutside
    \/ PressEnterInUrl \/ ClickExtract \/ ExtractDone
    \/ ClickOptimize \/ ClickTailorCV \/ OptimizeDone
    \/ ClickGenerate \/ ClickWriteCoverLetter \/ CoverLetterDone
    \/ DismissToast \/ ToastTimer

Spec == Init /\ [][Next]_vars

\* Every callback the event loop holds is run: a call, a read or a write
\* that is in flight settles, a timer that is pending fires.
Settle ==
    \/ ExtractDone \/ OptimizeDone \/ CoverLetterDone
    \/ ReaderOnLoad \/ ReaderOnError \/ MediaDone \/ StatusResetTimer
    \/ ClipboardReadFailed \/ ClipboardReadDone \/ TextDone
    \/ PrintTimer \/ ClipboardWriteDone \/ ToastTimer

FairSpec == InitLive /\ [][Next]_vars /\ WF_vars(Settle)

----------------------------------------------------------------------------
(* Vocabulary of the properties *)

InFlightCalls ==
    calls["extractJobDetails"] + calls["optimizeCV"] + calls["generateCoverLetter"]
    + calls["parseResumeFromMedia"] + calls["parseResumeFromText"]

\* empty or white space only, read off the chunks
Blank(s) == \A i \in 1..Len(s) : s[i] = " " \/ s[i] = "\n"

\* the step appends exactly one notification, of the given severities
Pushed(types) ==
    /\ Len(toasts') = Len(toasts) + 1
    /\ SubSeq(toasts', 1, Len(toasts)) = toasts
    /\ toasts'[Len(toasts')].type \in types

HasToast(message) == \E i \in 1..Len(toasts) : toasts[i].message = message

\* the step is a user event that starts an operation
OperationInvoked ==
    /\ nEvents' # nEvents
    /\ \/ InFlightCalls' > InFlightCalls
       \/ reads'["readAsDataURL"] > reads["readAsDataURL"]
       \/ reads'["readText"] > reads["readText"]

\* the step is the completion handler of a Generation Client call
CallSettled == InFlightCalls' < InFlightCalls

\* C1: at most one Generation Client call is in flight, in every reachable
\* state.
C1_AtMostOneCallInFlight == InFlightCalls <= 1

\* C2: when the external call of an operation settles, exactly one of the
\* two happens: the success effect is applied (with its success
\* notification) or an error notification is pushed.
C2_ExactlyOneOutcome == [][CallSettled => Pushed({"success", "error"})]_vars

\* C3: every state in which status is not IDLE is eventually followed by
\* one in which status is IDLE, given that whatever is in flight settles.
C3_EventuallyIdle == (status # "IDLE") ~> (status = "IDLE")

C3_Busy == status # "IDLE" /\ InFlightCalls > 0

\* C4: status is IDLE when an operation is invoked, and IDLE when the
\* completion handler of its call has finished.
C4_IdleBeforeAndAfter ==
    [][/\ OperationInvoked => status = "IDLE"
       /\ CallSettled => status' = "IDLE"]_vars

\* C5: status never changes from one busy value directly to another: a
\* busy status is entered from IDLE only.
C5_BusyOnlyFromIdle ==
    [][(status' # status /\ status' # "IDLE") => status = "IDLE"]_vars

\* C6: Optimize or GenerateCoverLetter invoked with a blank companyProfile,
\* jobDescription or resume pushes one error notification, issues no call
\* and leaves status, both buffers, the tab and the view mode as they were.
C6_PreconditionRejected ==
    [][((ClickOptimize \/ ClickTailorCV \/ ClickGenerate \/ ClickWriteCoverLetter)
        /\ (Blank(companyProfile) \/ Blank(jobDescription) \/ Blank(cvContent)))
       => (Pushed({"error"})
           /\ UNCHANGED <<calls, status, cvContent, clContent, activeTab, isEditing>>)]_vars

C6_Rejected ==
    /\ HasToast("Please ensure your current CV is in the editor")
    /\ Blank(cvContent)
    /\ ~Blank(companyProfile)
    /\ InFlightCalls = 0

\* C7: ExtractJobDetails invoked with a blank URL pushes one error
\* notification, issues no call and leaves status as it was, busy or not.
C7_BlankUrlRejected ==
    [][((PressEnterInUrl \/ ClickExtract) /\ Blank(url))
       => (Pushed({"error"}) /\ UNCHANGED <<calls, status>>)]_vars

C7_RejectedWhileBusy ==
    /\ HasToast("Please enter a valid URL")
    /\ url = <<" ">>
    /\ status = "PARSING"

\* C8: a file whose MIME type names neither pdf nor image is refused with
\* one error notification, before any file read or call, with status and
\* the resume buffer unchanged.
C8_UnsupportedFileRejected ==
    [][\A file \in Files :
          (FileChosen(file) /\ (\A i \in 1..Len(file.type) :
                                   file.type[i] \notin {"pdf", "image"}))
          => (Pushed({"error"}) /\ UNCHANGED <<status, cvContent, reads, calls>>)]_vars

C8_Rejected ==
    /\ HasToast("Please upload a PDF or Image file.")
    /\ reads["readAsDataURL"] = 0
    /\ InFlightCalls = 0

\* C9: when the optimizeCV call returns a text, the resume buffer is that
\* text, the tab is the resume, the view is the preview, and the cover
\* letter and the three job-detail fields are as they were.
C9_OptimizeSuccess ==
    [][\A o \in TextOutcomes :
          (OptimizeSettled(o) /\ o.kind = "text" /\ o.text # <<>>)
          => /\ cvContent' = o.text
             /\ activeTab' = "cv"
             /\ isEditing' = FALSE
             /\ UNCHANGED <<clContent, companyProfile, jobDescription, otherDetails>>]_vars

C9_Optimized ==
    /\ HasToast("CV optimized successfully!")
    /\ cvContent = <<"generated">>
    /\ activeTab = "cv"
    /\ ~isEditing

\* C10: when the generateCoverLetter call returns a text, the cover-letter
\* buffer is that text, the tab is the cover letter, the view is the
\* preview, and the resume buffer is as it was.
C10_CoverLetterSuccess ==
    [][\A o \in TextOutcomes :
          (CoverLetterSettled(o) /\ o.kind = "text" /\ o.text # <<>>)
          => /\ clContent' = o.text
             /\ activeTab' = "cl"
             /\ isEditing' = FALSE
             /\ UNCHANGED cvContent]_vars

C10_Generated ==
    /\ HasToast("Cover Letter generated!")
    /\ clContent = <<"generated">>
    /\ activeTab = "cl"
    /\ ~isEditing

\* the outcome is a text the service returns
Returned(o) == o.kind = "text" /\ o.text # <<>>

\* C11: when an import call returns a text, from a file or from the
\* clipboard, the resume buffer is that text, the tab is the resume and
\* the view is the editor.
C11_ImportSuccess ==
    [][\A o \in TextOutcomes :
          ((MediaSettled(o) \/ TextSettled(o)) /\ Returned(o))
          => /\ cvContent' = o.text
             /\ activeTab' = "cv"
             /\ isEditing' = TRUE]_vars

C11_Imported ==
    /\ HasToast("CV imported successfully!")
    /\ cvContent = <<"generated">>
    /\ activeTab = "cv"
    /\ isEditing

\* the blocks of the other-details text, each a label and a field
DetailBlocks(d) ==
    << <<"Salary Budget: ">> \o d.salaryBudget,
       <<"HR Contact: ">> \o d.hrContact,
       <<"Email: ">> \o d.contactEmail,
       <<"Previous/Current Holder:", "\n">> \o d.previousHolder,
       <<"Possible Manager:", "\n">> \o d.possibleManager,
       <<"Possible Team Mates:", "\n">> \o d.teamMates >>

\* blocks joined with a blank line between one and the next
RECURSIVE JoinBlocks(_)
JoinBlocks(blocks) ==
    IF Len(blocks) = 1 THEN blocks[1]
    ELSE blocks[1] \o <<"\n", "\n">> \o JoinBlocks(Tail(blocks))

\* C12: when the extraction call returns the details, companyProfile and
\* jobDescription are the returned fields and otherDetails is the six
\* labelled blocks (salary, HR contact, email, previous holder, manager,
\* team mates) in that order, a blank line between each and the next.
C12_ExtractSuccess ==
    [][\A o \in JsonOutcomes :
          (ExtractSettled(o) /\ o.kind = "json")
          => /\ companyProfile' = o.details.companyProfile
             /\ jobDescription' = o.details.jobDescription
             /\ otherDetails' = JoinBlocks(DetailBlocks(o.details))]_vars

C12_Extracted ==
    /\ HasToast("Job details extracted successfully!")
    /\ companyProfile = <<"Acme">>
    /\ jobDescription = <<"Engineer">>
    /\ Len(otherDetails) = 25
    /\ <<otherDetails[2], otherDetails[6], otherDetails[10]>> = <<"NA", "Ann", "hr@acme">>
    /\ <<otherDetails[15], otherDetails[20], otherDetails[25]>> = <<"Bob", "Cid", "Dee">>

\* ts without its i-th element
RemoveAt(ts, i) == SubSeq(ts, 1, i - 1) \o SubSeq(ts, i + 1, Len(ts))

\* C13: a step that removes from the collection, a dismissal or an expiry,
\* removes one notification only: every other one stays, in the same
\* relative order.
C13_RemovesOnlyThat ==
    [][Len(toasts') < Len(toasts)
       => \E i \in 1..Len(toasts) : toasts' = RemoveAt(toasts, i)]_vars

\* C14: no two notifications in the collection share an id.
C14_IdsUnique ==
    \A i, j \in 1..Len(toasts) : i # j => toasts[i].id # toasts[j].id

\* C15: a notification is inserted behind all those in the collection, so
\* the notification of the operation that completes first precedes the
\* notification of the one that completes later, whichever was started
\* first.
C15_InsertionOrder ==
    [][Len(toasts') > Len(toasts)
       => toasts' = Append(toasts, toasts'[Len(toasts')])]_vars

\* the cover letter came back before the resume of the same two clicks
C15_TwoCompletions ==
    /\ Len(toasts) = 2
    /\ toasts[1].message = "Cover Letter generated!"
    /\ toasts[2].message = "CV optimized successfully!"
    /\ InFlightCalls = 0

\* C16: what is not a user event changes a buffer or a job-detail field
\* only as the successful completion of an operation that writes it: the
\* job details by a successful extraction, the resume by a successful
\* optimize or import, the cover letter by a successful generation.  The
\* URL is never changed.  So an edit made while an operation is in flight
\* survives every completion that does not write the edited field, and
\* every failure.
C16_EditsPreserved ==
    [][nEvents' = nEvents
       => /\ url' = url
          /\ (jobFields' # jobFields)
             => \E o \in JsonOutcomes : o.kind = "json" /\ ExtractSettled(o)
          /\ (cvContent' # cvContent)
             => \E o \in TextOutcomes :
                   Returned(o) /\ (OptimizeSettled(o) \/ MediaSettled(o) \/ TextSettled(o))
          /\ (clContent' # clContent)
             => \E o \in TextOutcomes : Returned(o) /\ CoverLetterSettled(o)]_vars

\* the resume typed by the user is there after an extraction, and the
\* job details typed by the user are there after a failed optimize
C16_EditKept ==
    \/ /\ HasToast("Job details extracted successfully!")
       /\ cvContent = <<"typed">>
    \/ /\ HasToast("Failed to optimize CV. Please try again.")
       /\ companyProfile = <<"typed">>
       /\ otherDetails = <<"typed">>

\* no call, no file or clipboard read and no status reset is pending
Quiescent ==
    /\ InFlightCalls = 0
    /\ reads["readAsDataURL"] = 0
    /\ reads["readText"] = 0
    /\ timers["statusReset"] = 0

C18_EmptyClipboardRejected ==
    [][\A text \in ClipboardTexts :
          (ClipboardReadSettled(text) /\ Blank(text))
          => (Pushed({"error"}) /\ UNCHANGED <<calls, cvContent>> /\ status' = "IDLE")]_vars

C18_Rejected ==
    /\ HasToast("Clipboard is empty. Copy your CV text first.")
    /\ reads["readText"] = 0
    /\ calls["parseResumeFromText"] = 0
    /\ status = "IDLE"

\* C19: export-to-file hands over optimized_cv.md with the resume on the
\* resume tab and cover_letter.md with the cover letter on the cover-letter
\* tab, and changes neither buffer nor status.
C19_SaveToFile ==
    [][handleSaveToDrive
       => /\ download' = IF activeTab = "cv"
                         THEN [filename |-> "optimized_cv.md", content |-> cvContent]
                         ELSE [filename |-> "cover_letter.md", content |-> clContent]
          /\ UNCHANGED <<cvContent, clContent, status>>]_vars

C19_CoverLetterSaved ==
    /\ HasToast("File downloaded as Markdown")
    /\ activeTab = "cl"
    /\ download = [filename |-> "cover_letter.md", content |-> clContent]

\* C20: export-to-clipboard pushes one notification per invocation:
\* success when both representations are written, info when it falls back
\* to a plain-text write because the runtime has no multi-representation
\* write, error when the write fails; buffers and status stay as they were.
C20_ExportNotifies ==
    [][/\ ExportInvoked(FALSE)
          => (reads'["writeText"] = reads["writeText"] + 1 /\ UNCHANGED toasts)
       /\ ExportInvoked(TRUE)
          => (reads'["write"] = reads["write"] + 1 /\ UNCHANGED toasts)
       /\ \A kind \in {"write", "writeText"}, ok \in BOOLEAN :
             ClipboardWriteSettled(kind, ok)
             => Pushed({IF ~ok THEN "error" ELSE IF kind = "write" THEN "success" ELSE "info"})
       /\ (handleExportToGoogleDoc \/ ClipboardWriteDone)
          => UNCHANGED <<cvContent, clContent, status>>]_vars

\* the operations under way: calls in flight, and file or clipboard reads
\* whose completion issues a call
Pending == InFlightCalls + reads["readAsDataURL"] + reads["readText"]

\* the step is the completion handler of one of the five calls
CallCompleted ==
    ExtractDone \/ OptimizeDone \/ CoverLetterDone \/ MediaDone \/ TextDone

\* C21: nothing is retried automatically.  A user trigger puts at most one
\* operation under way and at most one call in flight; a step that is no
\* user trigger puts none under way (a call it issues is the one of a read
\* that a trigger started); and the completion handler of a call, failed or
\* not, issues no call: the calls in flight go down by one.
C21_NoAutomaticRetry ==
    [][/\ nEvents' # nEvents
          => (Pending' <= Pending + 1 /\ InFlightCalls' <= InFlightCalls + 1)
       /\ nEvents' = nEvents => Pending' <= Pending
       /\ CallCompleted
          => (InFlightCalls' = InFlightCalls - 1 /\ Pending' = Pending - 1)]_vars

C21_FailedNotRetried ==
    /\ Len(toasts) = 1
    /\ toasts[1].message = "Failed to optimize CV. Please try again."
    /\ Pending = 0
    /\ nEvents = 3

\* a response whose text is the empty string
EmptyText == [kind |-> "text", text |-> <<>>]
EmptyJson == [kind |-> "empty"]

\* C22: for each of the five calls, the completion handler does with an
\* empty response text exactly what it does with a rejected call: the two
\* have the same successor states (same notification, same status), and
\* the fields, the buffers, the tab and the view mode stay as they were.
C22_EmptyAsFailure ==
    [][/\ ExtractSettled(EmptyJson) <=> ExtractSettled(Rejected)
       /\ OptimizeSettled(EmptyText) <=> OptimizeSettled(Rejected)
       /\ CoverLetterSettled(EmptyText) <=> CoverLetterSettled(Rejected)
       /\ MediaSettled(EmptyText) <=> MediaSettled(Rejected)
       /\ TextSettled(EmptyText) <=> TextSettled(Rejected)
       /\ (ExtractSettled(EmptyJson) \/ OptimizeSettled(EmptyText)
           \/ CoverLetterSettled(EmptyText) \/ TextSettled(EmptyText))
          => (Pushed({"error"}) /\ status' = "IDLE"
              /\ UNCHANGED <<jobFields, buffers, view>>)
       /\ MediaSettled(EmptyText)
          => UNCHANGED <<toasts, status, jobFields, buffers, view>>]_vars

C22_CoverLetterFailed ==
    /\ HasToast("Failed to generate Cover Letter.")
    /\ clContent = Trim(DEFAULT_CL_PLACEHOLDER)
    /\ calls["generateCoverLetter"] = 0
    /\ status = "IDLE"

\* the busy status of the operation that issues each call
BusyValue(k) ==
    CASE k = "extractJobDetails" -> "EXTRACTING"
      [] k = "optimizeCV" -> "OPTIMIZING"
      [] k = "generateCoverLetter" -> "GENERATING_COVER_LETTER"
      [] OTHER -> "PARSING"

\* C23: while a call is pending, status is the busy value of the operation
\* that issued it, and so never IDLE (the trigger controls are disabled by
\* status # IDLE), also when a file import outlasts its delayed reset.
C23_BusyWhilePending ==
    /\ \A k \in CallKinds : calls[k] > 0 => status = BusyValue(k)
    /\ InFlightCalls > 0 => status # "IDLE"

\* C24: the delayed reset of a file import sets status to IDLE only on
\* behalf of that import: when it fires while status is the busy value of
\* another operation (one that set status after the import did, and whose
\* call is in flight), it leaves status alone.
C24_ResetOnlyOwn ==
    [][(/\ StatusResetTimer
        /\ \E k \in {"extractJobDetails", "optimizeCV", "generateCoverLetter"} :
              calls[k] > 0 /\ status = BusyValue(k))
       => status' = status]_vars

\* C25: the step in which an operation fails (its call is rejected or has
\* no usable response, or its file or clipboard read fails) leaves alone
\* what the operation writes on success: Extract the three job fields,
\* Optimize and the two imports the resume, GenerateCoverLetter the cover
\* letter; and none of them changes the tab or the view mode.
C25_FailureLeavesFields ==
    [][/\ (\E o \in JsonOutcomes : o.kind # "json" /\ ExtractSettled(o))
          => UNCHANGED <<jobFields, view>>
       /\ (\E o \in TextOutcomes :
              ~Returned(o) /\ (OptimizeSettled(o) \/ MediaSettled(o) \/ TextSettled(o)))
          => UNCHANGED <<cvContent, view>>
       /\ (ReaderOnError \/ ClipboardReadFailed
           \/ \E text \in ClipboardTexts : Blank(text) /\ ClipboardReadSettled(text))
          => UNCHANGED <<cvContent, view>>
       /\ (\E o \in TextOutcomes : ~Returned(o) /\ CoverLetterSettled(o))
          => UNCHANGED <<clContent, view>>]_vars

C25_ImportFailed ==
    /\ HasToast("Failed to read file.")
    /\ cvContent = <<"typed">>
    /\ activeTab = "cv"
    /\ isEditing

\* C26: the clipboard-failure notification is pushed only by the step in
\* which reading the clipboard failed; a parseResumeFromText call that
\* fails after the clipboard was read pushes an error notification with
\* another message.
C26_ClipboardFailureOnly ==
    [][/\ (/\ Len(toasts') = Len(toasts) + 1
           /\ toasts'[Len(toasts')].message = "Failed to read clipboard. Please allow permissions.")
          => ClipboardReadFailed
       /\ \A o \in TextOutcomes :
             (TextSettled(o) /\ ~Returned(o))
             => (/\ Pushed({"error"})
                 /\ toasts'[Len(toasts')].message # "Failed to read clipboard. Please allow permissions.")]_vars

\* the notifications shown under an id
Shown(id) == Len(SelectSeq(toasts, LAMBDA t : t.id = id))

\* C27: removal is idempotent.  When an expiry timer fires for an id that
\* has more timers pending than notifications shown (the timers run in the
\* order they were set, so this one was set for a notification that is
\* gone), the collection stays exactly as it was; and a removal brings
\* nothing into the collection.
C27_RemovalIdempotent ==
    [][/\ (ToastTimer /\ \E id \in ToastIds :
              toastTimers'[id] < toastTimers[id] /\ toastTimers[id] > Shown(id))
          => toasts' = toasts
       /\ (ToastTimer \/ DismissToast)
          => \A i \in 1..Len(toasts') : \E j \in 1..Len(toasts) : toasts'[i] = toasts[j]]_vars

\* C28: when the delayed window.print() of the PDF export runs, the view
\* mode is the preview, whatever the user did since the export was asked.
C28_PrintsPreview ==
    [][PrintTimer => (~isEditing /\ printed' = "preview")]_vars
====
